---- MODULE Spec2Model ----
(***************************************************************************)
(* A model of derphttp.Client (src/unnamed/part_000): the reconnecting     *)
(* DERP-over-HTTP client.  The state is the Client's mutex-guarded fields, *)
(* the transports it has dialed, the goroutines it spawns (context         *)
(* watchers, asynchronous closers, the IPv4/IPv6 racers of dialNode) and   *)
(* the position of every caller goroutine inside the public operations.    *)
(***************************************************************************)
EXTENDS Integers, Sequences, FiniteSets, TLC

\* ---------------------------------------------------------------- bounds
\* Transports the network lets the handle dial over one behaviour.
MaxConns == 2
\* Public operations started over one behaviour, all callers together.
MaxOps == 3
\* Connect calls over one behaviour of a handle on a region.
MaxAttempts == 1

\* The caller goroutines.  They are interchangeable: the first call of a
\* behaviour is taken to be Caller1's.
Procs == {"A", "B"}
Caller1 == "A"

\* The mutex value when nobody holds c.mu.
Free == "free"

Conns == 1..MaxConns

\* ----------------------------------------------------------- operations
\* Operations of the shape connect / client.<op> / closeForReconnect.  Send stands
\* also for ForwardPacket, WatchConnectionChanges and ClosePeer, whose bodies are
\* Send's with another method of the RELAY client.
RelayOps == {"Send", "Recv"}
ConnectOps == RelayOps \cup {"Connect"}
AllOps == ConnectOps \cup {"SendPong", "NotePreferred", "Close", "DialRegionTLS"}

\* What an operation hands back to its caller.
\*   "none"            nothing returned yet
\*   "nil"             success
\*   "ErrClientClosed" the sentinel
\*   "notconnected"    errors.New("not connected")
\*   "relayerr"        the RELAY client's error, verbatim
\*   "connecterr"      the annotated error of a failed connect attempt
\*   "dialerr"         DialRegionTLS's error
\*   "void"            NotePreferred has no result
Rets == {"none", "nil", "ErrClientClosed", "notconnected", "relayerr", "connecterr",
         "dialerr", "void"}

VARIABLES
    \* type Client
    mu,           \* c.mu: Free or the goroutine holding it
    closed,       \* c.closed
    preferred,    \* c.preferred
    client,       \* c.client: 0 is nil, else the transport the RELAY client runs on
    netConn,      \* c.netConn: 0 is nil, else a transport
    connGen,      \* c.connGen
    serverPubKey, \* c.serverPubKey: 0 is the zero key, else the transport it was learned on
    cancelled,    \* c.ctx is done (c.cancelCtx has been called)
    target,       \* "http" or "https" (c.url is set) or "region" (c.getRegion is set)
    \* the network
    dialed,       \* transports dialed so far; they are 1..dialed
    closes,       \* closes[t]: how many times Close has executed on transport t
    goClose,      \* goClose[t]: goroutines spawned as "go x.Close()" on t, not yet run
    wClose,       \* transports a connect watcher has decided to close (line 263)
    orphans,      \* dialNode racers still inside dialContext after dialNode returned
    pw,           \* pw[t]: the watcher dialNodeUsingProxy spawned on t (lines 592-599)
    \* per goroutine, the locals of the connect attempt (or DialRegionTLS call) it runs
    att,
    \* the caller goroutines
    pc, op, arg, cl, gen, ret,
    \* history
    nops,         \* operations started
    genOf,        \* genOf[t]: the generation t was installed under, 0 if never
    teardowns,    \* teardowns[t]: closeForReconnect calls that cleared client t
    noted,        \* noted[t]: the last NotePreferred value the RELAY client on t
                  \* was told with success, "none" before the first
    handed        \* the transports DialRegionTLS has returned to its callers

clientVars == <<mu, closed, preferred, client, netConn, connGen, serverPubKey, cancelled, target>>
netVars == <<dialed, closes, goClose, wClose, orphans, pw>>
procVars == <<pc, op, arg, cl, gen, ret>>
histVars == <<nops, genOf, teardowns, noted, handed>>
vars == <<clientVars, netVars, att, procVars, histVars>>

\* ------------------------------------------------------------ transports
Open(t) == t \in 1..dialed /\ closes[t] = 0
OpenConns == {t \in Conns : Open(t)}

\* x.Close() executes on transport t.
CloseConn(cs, t) == [cs EXCEPT ![t] = @ + 1]

\* ------------------------------------------------------------- errors
\* An error value: its kind, and for a dial error the node (index in the region's
\* list) and the address family it came from.
Err(k, n, f) == [kind |-> k, node |-> n, fam |-> f]
NoErr == Err("nil", 0, "")

\* ---------------------------------------------------------- the regions
\* A node of a region, as dialRegion and dialNode read it: its STUNOnly flag and
\* whether shouldDialProto admits its IPv4 and its IPv6 field.
Node(s, a, b) == [STUNOnly |-> s, v4 |-> a, v6 |-> b]
NodeKinds == {Node(TRUE, TRUE, TRUE), Node(FALSE, TRUE, TRUE),
              Node(FALSE, TRUE, FALSE), Node(FALSE, FALSE, FALSE)}
\* What getRegion can return, apart from nil: node lists of up to two nodes.
Regions == {<<>>} \cup {<<n>> : n \in NodeKinds}
           \cup {<<n, m>> : n \in NodeKinds, m \in {Node(TRUE, TRUE, TRUE), Node(FALSE, TRUE, TRUE)}}

Fams == {"tcp4", "tcp6"}

\* A racer goroutine of dialNode (lines 513-530): not started or finished ("off"),
\* inside dialContext ("dial"), or holding its result in the select of line 523
\* ("res": c is the transport, 0 when the dial failed).
Racer(s, c) == [st |-> s, c |-> c]
RacerOff == Racer("off", 0)

\* ---------------------------------------------------------- the attempt
\* The locals of one connect attempt:
\*   ctxDone   the attempt's ctx (line 195) is done
\*   tcpConn   the tcpConn variable of line 218 (0 is nil)
\*   watching  the goroutine of lines 248-266 is in its outer select, done still open
\*   nodes, i  reg.Nodes and the position of dialRegion's loop in it
\*   firstErr  dialRegion's firstErr
\*   dnDone    dialNode's ctx (line 507) is done
\*   nwait, dnErr  dialNode's nwait and firstErr
\*   r         dialNode's racer goroutines
\*   version, certs  connState.Version and connState.PeerCertificates (line 293),
\*             once the TLS handshake has been followed to its end
\*   start     the branch taken at line 311, "fast" or "slow", "" before it
\*   hasCache, lookupErr, isSOCKS  what dialURL found (lines 372-376): c.DNSCache is
\*             set, LookupIP failed, the dialer is a SOCKS dialer
\*   plan      what dialURL does with it, "" before it has looked
\*   proxyConn the proxyConn of a running dialNodeUsingProxy (line 570)
\*   proxied   the transports the attempt has dialed to a proxy
NoAtt == [ctxDone |-> FALSE, tcpConn |-> 0, watching |-> FALSE,
          nodes |-> <<>>, i |-> 0, firstErr |-> NoErr,
          dnDone |-> FALSE, nwait |-> 0, dnErr |-> NoErr,
          r |-> [f \in Fams |-> RacerOff],
          version |-> 0, certs |-> <<>>, start |-> "",
          hasCache |-> FALSE, lookupErr |-> FALSE, isSOCKS |-> FALSE, plan |-> "",
          proxyConn |-> 0, proxied |-> {}]

\* The state after construction, for a handle whose target is tg.
Start(tg) ==
    /\ mu = Free
    /\ closed = FALSE
    /\ preferred = FALSE
    /\ client = 0
    /\ netConn = 0
    /\ connGen = 0
    /\ serverPubKey = 0
    /\ cancelled = FALSE
    /\ target = tg
    /\ dialed = 0
    /\ closes = [t \in Conns |-> 0]
    /\ goClose = [t \in Conns |-> 0]
    /\ wClose = {}
    /\ orphans = 0
    /\ pw = [t \in Conns |-> "off"]
    /\ att = [g \in Procs |-> NoAtt]
    /\ pc = [g \in Procs |-> "done"]
    /\ op = [g \in Procs |-> "none"]
    /\ arg = [g \in Procs |-> FALSE]
    /\ cl = [g \in Procs |-> 0]
    /\ gen = [g \in Procs |-> 0]
    /\ ret = [g \in Procs |-> "none"]
    /\ nops = 0
    /\ genOf = [t \in Conns |-> 0]
    /\ teardowns = [t \in Conns |-> 0]
    /\ noted = [t \in Conns |-> "none"]
    /\ handed = {}

Init == Start("https")

\* ------------------------------------------------------- small helpers
SetProc(g, p, c, n, r) ==
    /\ pc' = [pc EXCEPT ![g] = p]
    /\ cl' = [cl EXCEPT ![g] = c]
    /\ gen' = [gen EXCEPT ![g] = n]
    /\ ret' = [ret EXCEPT ![g] = r]
    /\ UNCHANGED <<op, arg>>

\* The operation of g returns r; n is the generation it ran on, 0 if none.
Return(g, n, r) ==
    /\ pc' = [pc EXCEPT ![g] = "done"]
    /\ op' = [op EXCEPT ![g] = "none"]
    /\ arg' = [arg EXCEPT ![g] = FALSE]
    /\ cl' = [cl EXCEPT ![g] = 0]
    /\ gen' = [gen EXCEPT ![g] = n]
    /\ ret' = [ret EXCEPT ![g] = r]

SetPc(g, p) ==
    /\ pc' = [pc EXCEPT ![g] = p]
    /\ UNCHANGED <<op, arg, cl, gen, ret>>

SetAtt(g, a) == att' = [att EXCEPT ![g] = a]

\* The goroutine runs a connect attempt (it holds c.mu) or a DialRegionTLS call.
AttemptPcs == {"getRegion", "dialURL", "dialRegion", "dialNode", "proxyConnect",
               "upgrade", "tlsHandshake", "handOff"}
InAttempt(g) == pc[g] \in AttemptPcs

\* ------------------------------------------------------ calling an operation
\* Close forgets c.cancelCtx().
cancelCtxSkipped(o, was) == was

\* Line 770: whether c.ctx is done once operation o has been entered; was tells
\* whether it was done before.  Only Close calls c.cancelCtx().
cancelCtx(o, was) == o = "Close" \/ was

\* A caller goroutine calls a public operation.  Close starts with c.cancelCtx(),
\* before it asks for the mutex.
Call(g, o, v) ==
    /\ pc[g] = "done"
    /\ nops < MaxOps
    /\ nops = 0 => g = Caller1
    /\ nops' = nops + 1
    /\ pc' = [pc EXCEPT ![g] = IF o \in ConnectOps THEN "connect" ELSE o]
    /\ op' = [op EXCEPT ![g] = o]
    /\ arg' = [arg EXCEPT ![g] = v]
    /\ UNCHANGED <<cl, gen, ret>>
    /\ cancelled' = cancelCtx(o, cancelled)
    /\ UNCHANGED <<mu, closed, preferred, client, netConn, connGen, serverPubKey, target>>
    /\ UNCHANGED <<netVars, att, genOf, teardowns, noted, handed>>

\* ------------------------------------------------------------ parseMetaCert
\* A peer certificate, as parseMetaCert reads it: whether its common name starts
\* with "derpkey", what the rest of the name parses to as a hex public key ("bad":
\* no key, "zero": the zero key, "key": another key) and its serial number.
Cert(d, k, n) == [derpkey |-> d, key |-> k, serial |-> n]
Serials == {-1, 0, 1, 255, 256}
Certs == {Cert(FALSE, "bad", 1)} \cup {Cert(TRUE, k, n) : k \in {"bad", "zero", "key"}, n \in Serials}
CertChains == {<<>>} \cup {<<c>> : c \in Certs} \cup {<<c, d>> : c \in Certs, d \in Certs}

\* tls.VersionTLS13 and tls.VersionTLS12.
VersionTLS13 == 772
VersionTLS12 == VersionTLS13 - 1
TLSVersions == {VersionTLS12, VersionTLS13}

\* The serial number is accepted up to 16 bits.
FitsIn16Bits(n) == (IF n < 0 THEN -n ELSE n) < 65536

\* big.Int.BitLen() <= 8: the absolute value of the serial number is below 2^8.
FitsIn8Bits(n) == (IF n < 0 THEN -n ELSE n) < 256

\* parseMetaCert (lines 809-820): the key and the protocol version of the first
\* certificate whose name parses and whose serial fits, else the zero key and 0.
RECURSIVE parseMetaCert(_)
parseMetaCert(certs) ==
    IF certs = <<>> THEN [pub |-> "zero", version |-> 0]
    ELSE LET cert == Head(certs) IN
         IF cert.derpkey /\ cert.key # "bad" /\ FitsIn8Bits(cert.serial)
         THEN [pub |-> cert.key, version |-> cert.serial]
         ELSE parseMetaCert(Tail(certs))

\* Lines 293-296 and 311: whether connect takes the fast-start branch.
FastStart(https, version, certs) ==
    LET meta == IF https /\ version >= VersionTLS13
                THEN parseMetaCert(certs)
                ELSE [pub |-> "zero", version |-> 0]
    IN  meta.pub # "zero" /\ meta.version # 0

\* What the fast-start decision can be after a TLS handshake, over the versions
\* and the peer chains.
FastStarts == {FastStart(TRUE, version, certs) : version \in TLSVersions, certs \in CertChains}

\* ------------------------------------------------------------------ dialURL
\* dialURL (lines 366-389) up to its dial: "dnserr" when it returns the lookup
\* error, else what it dials, the resolved IP or the raw host name.
dialURLPlan(hasCache, lookupErr, isSOCKS) ==
    IF hasCache /\ lookupErr /\ isSOCKS THEN "dnserr"
    ELSE IF hasCache /\ ~lookupErr THEN "ip"
    ELSE "host"

\* ---------------------------------------------------------------- connect
UseHTTPS == target # "http"

\* firstErr after "if firstErr == nil { firstErr = e }".
First(firstErr, e) == IF firstErr = NoErr THEN e ELSE firstErr

\* connect has returned (k, n, nil) to the operation of g: Connect returns nil
\* (lines 120-121), the others go on to their RELAY call.
Obtained(g, k, n) ==
    IF op[g] = "Connect"
    THEN Return(g, n, "nil")
    ELSE SetProc(g, "io", k, n, "none")

\* connect returns an error and nobody closes the transport it dialed.
FailConnectLeak(g, n) ==
    /\ mu' = Free
    /\ UNCHANGED goClose
    /\ SetAtt(g, NoAtt)
    /\ Return(g, 0, "connecterr")

\* connect returns an error after its attempt began: the deferred calls run, the
\* handler of lines 220-230 spawning "go tcpConn.Close()" when tcpConn is set (n
\* counts the Close goroutines spawned on the transport), then cancel and Unlock.
FailConnect(g, n) ==
    /\ mu' = Free
    /\ goClose' = IF att[g].tcpConn # 0
                  THEN [goClose EXCEPT ![att[g].tcpConn] = @ + n]
                  ELSE goClose
    /\ SetAtt(g, NoAtt)
    /\ Return(g, 0, "connecterr")

\* connect without its check of c.closed.
connectCheckNoClosed(c, k) == IF k # 0 THEN "live" ELSE "empty"

\* connect without its check of c.client.
connectCheckNoLive(c, k) == IF c THEN "closed" ELSE "empty"

\* Lines 184-189: what connect finds under the mutex, c being c.closed and k c.client.
connectCheck(c, k) == IF c THEN "closed" ELSE IF k # 0 THEN "live" ELSE "empty"

\* Lines 181-208: the mutex, the Closed check, the Live check, else the attempt begins.
ConnectEnter(g) ==
    /\ pc[g] = "connect"
    /\ mu = Free
    /\ IF connectCheck(closed, client) = "closed"
       THEN /\ Return(g, 0, "ErrClientClosed")
            /\ UNCHANGED <<mu, att>>
       ELSE IF connectCheck(closed, client) = "live"
       THEN /\ Obtained(g, client, connGen)
            /\ UNCHANGED <<mu, att>>
       ELSE /\ mu' = g
            /\ SetAtt(g, NoAtt)
            /\ SetPc(g, IF target = "region" THEN "getRegion" ELSE "dialURL")
    /\ UNCHANGED <<closed, preferred, client, netConn, connGen, serverPubKey, cancelled, target>>
    /\ UNCHANGED <<netVars, histVars>>

\* Lines 210-216: c.getRegion() returns nil or a region.
GetRegion(g) ==
    /\ pc[g] = "getRegion"
    /\ \E avail \in BOOLEAN, reg \in Regions :
        IF avail
        THEN /\ SetAtt(g, [att[g] EXCEPT !.nodes = reg, !.i = 1])
             /\ SetPc(g, "dialRegion")
             /\ UNCHANGED <<mu, goClose>>
        ELSE FailConnect(g, 0)
    /\ UNCHANGED <<closed, preferred, client, netConn, connGen, serverPubKey, cancelled, target>>
    /\ UNCHANGED <<dialed, closes, wClose, orphans, pw, histVars>>

\* A dial of connect or DialRegionTLS has returned transport t; a is the attempt
\* after the dialer's own bookkeeping.  The watcher goroutine (lines 248-266,
\* lines 445-451) starts.
DialSucceeded(g, t, a) ==
    /\ SetAtt(g, [a EXCEPT !.tcpConn = t, !.watching = TRUE])
    /\ SetPc(g, IF op[g] = "DialRegionTLS" THEN "tlsHandshake" ELSE "upgrade")

\* dialRegion has returned an error (lines 240-242, lines 438-440).
DialFailed(g) ==
    IF op[g] = "DialRegionTLS"
    THEN /\ SetAtt(g, NoAtt)
         /\ Return(g, 0, "dialerr")
         /\ UNCHANGED <<mu, goClose>>
    ELSE FailConnect(g, 0)

\* Lines 367-381, followed to the dial: dialURL has created its dialer, looked
\* the host up in the DNS cache if there is one, and knows what it will do.
LookupIP(g) ==
    /\ pc[g] = "dialURL"
    /\ att[g].plan = ""
    /\ \E hasCache \in BOOLEAN, lookupErr \in BOOLEAN, isSOCKS \in BOOLEAN :
        /\ (lookupErr => hasCache)
        /\ SetAtt(g, [att[g] EXCEPT
                !.hasCache = hasCache,
                !.lookupErr = lookupErr,
                !.isSOCKS = isSOCKS,
                !.plan = dialURLPlan(hasCache, lookupErr, isSOCKS)])
    /\ UNCHANGED <<clientVars, netVars, procVars, histVars>>

\* What dialURL can do: what it has settled on, or anything its lookup can
\* lead to.
PlanChoices(a) ==
    IF a.plan # "" THEN {a.plan}
    ELSE {dialURLPlan(hasCache, lookupErr, isSOCKS) :
              hasCache \in BOOLEAN, lookupErr \in BOOLEAN, isSOCKS \in BOOLEAN}

\* Lines 235 and 366-389: dialURL.
DialURL(g) ==
    /\ pc[g] = "dialURL"
    /\ \E plan \in PlanChoices(att[g]), ok \in BOOLEAN :
        IF plan # "dnserr" /\ ok /\ dialed < MaxConns
        THEN /\ dialed' = dialed + 1
             /\ DialSucceeded(g, dialed + 1, att[g])
             /\ UNCHANGED <<mu, goClose>>
        ELSE /\ FailConnect(g, 0)
             /\ UNCHANGED dialed
    /\ UNCHANGED <<closed, preferred, client, netConn, connGen, serverPubKey, cancelled, target>>
    /\ UNCHANGED <<closes, wClose, orphans, pw, histVars>>

\* ------------------------------------------------------ dialRegion, dialNode
\* The racers dialNode leaves behind never close what they hold.
LeftOpen(gc, a, f) == gc

\* dialNode returns while racers other than f are still running; its deferred
\* cancel (line 508) makes their ctx done.  A racer holding a transport in its
\* select can then only take the ctx.Done case and close it (lines 525-528): it
\* is a goroutine about to call Close.  A racer still inside dialContext lives on.
LeftToClose(gc, a, f) ==
    [t \in Conns |-> gc[t] + Cardinality({x \in Fams \ {f} : a.r[x].st = "res" /\ a.r[x].c = t})]
LeftDialing(a, f) == Cardinality({x \in Fams \ {f} : a.r[x].st = "dial"})

\* The attempt once dialNode has returned.
AfterDialNode(a) ==
    [a EXCEPT !.r = [f \in Fams |-> RacerOff], !.nwait = 0, !.dnErr = NoErr, !.dnDone = FALSE]

\* dialNode has returned error e for node a.i: lines 410-412, and the loop goes on.
NodeFailed(a, e) ==
    [AfterDialNode(a) EXCEPT !.firstErr = First(a.firstErr, e), !.i = a.i + 1]

\* dialRegion without the STUNOnly check of lines 400-405.
DialRegionStepNoSkip(g) ==
    /\ pc[g] = "dialRegion"
    /\ LET a == att[g] IN
        IF a.i > Len(a.nodes)
        THEN /\ DialFailed(g)
        ELSE LET n == a.nodes[a.i] IN
             /\ IF ~n.v4 /\ ~n.v6
                THEN /\ SetAtt(g, NodeFailed(a, Err("disabled", a.i, "")))
                     /\ UNCHANGED procVars
                ELSE /\ SetAtt(g, [a EXCEPT
                            !.r = [f \in Fams |->
                                     IF (f = "tcp4" /\ n.v4) \/ (f = "tcp6" /\ n.v6)
                                     THEN Racer("dial", 0) ELSE RacerOff],
                            !.nwait = (IF n.v4 THEN 1 ELSE 0) + (IF n.v6 THEN 1 ELSE 0),
                            !.dnErr = NoErr,
                            !.dnDone = a.ctxDone])
                     /\ SetPc(g, "dialNode")
             /\ UNCHANGED <<mu, goClose>>
    /\ UNCHANGED <<closed, preferred, client, netConn, connGen, serverPubKey, cancelled, target>>
    /\ UNCHANGED <<dialed, closes, wClose, orphans, pw, histVars>>

\* dialRegion (lines 394-415), one turn of its loop: the list is exhausted (or
\* empty) and it returns an error; the node is STUNOnly and is skipped; dialNode
\* finds both families disabled (lines 532-540); or dialNode starts its racers
\* (lines 506-537), under a ctx derived from the attempt's.
DialRegionStep(g) ==
    /\ pc[g] = "dialRegion"
    /\ LET a == att[g] IN
        IF a.i > Len(a.nodes)
        THEN /\ DialFailed(g)
        ELSE LET n == a.nodes[a.i] IN
             /\ IF n.STUNOnly
                THEN /\ SetAtt(g, [a EXCEPT !.firstErr = First(a.firstErr, Err("stunonly", 0, "")),
                                            !.i = a.i + 1])
                     /\ UNCHANGED procVars
                ELSE IF ~n.v4 /\ ~n.v6
                THEN /\ SetAtt(g, NodeFailed(a, Err("disabled", a.i, "")))
                     /\ UNCHANGED procVars
                ELSE /\ SetAtt(g, [a EXCEPT
                            !.r = [f \in Fams |->
                                     IF (f = "tcp4" /\ n.v4) \/ (f = "tcp6" /\ n.v6)
                                     THEN Racer("dial", 0) ELSE RacerOff],
                            !.nwait = (IF n.v4 THEN 1 ELSE 0) + (IF n.v6 THEN 1 ELSE 0),
                            !.dnErr = NoErr,
                            !.dnDone = a.ctxDone])
                     /\ SetPc(g, "dialNode")
             /\ UNCHANGED <<mu, goClose>>
    /\ UNCHANGED <<closed, preferred, client, netConn, connGen, serverPubKey, cancelled, target>>
    /\ UNCHANGED <<dialed, closes, wClose, orphans, pw, histVars>>

\* Line 522: the dialContext of racer f returns, a transport or an error.
RacerDial(g, f) ==
    /\ pc[g] = "dialNode"
    /\ att[g].r[f].st = "dial"
    /\ \E ok \in BOOLEAN :
        IF ok /\ dialed < MaxConns
        THEN /\ dialed' = dialed + 1
             /\ SetAtt(g, [att[g] EXCEPT !.r[f] = Racer("res", dialed + 1)])
        ELSE /\ SetAtt(g, [att[g] EXCEPT !.r[f] = Racer("res", 0)])
             /\ UNCHANGED dialed
    /\ UNCHANGED <<clientVars, procVars>>
    /\ UNCHANGED <<closes, goClose, wClose, orphans, pw, histVars>>

\* Lines 525-528: racer f, holding its result, takes the ctx.Done case and closes
\* the transport it dialed.
RacerCtxDone(g, f) ==
    /\ pc[g] = "dialNode"
    /\ att[g].r[f].st = "res"
    /\ att[g].dnDone
    /\ closes' = IF att[g].r[f].c # 0 THEN CloseConn(closes, att[g].r[f].c) ELSE closes
    /\ SetAtt(g, [att[g] EXCEPT !.r[f] = RacerOff])
    /\ UNCHANGED <<clientVars, procVars, histVars>>
    /\ UNCHANGED <<dialed, goClose, wClose, orphans, pw>>

\* Lines 545-555: dialNode receives the result of racer f.  The two selects meet
\* on resc only while dialNode's ctx is not done: closing ctx.Done() settles every
\* select waiting on it, and a select entered afterwards takes that case, the
\* other side of resc being absent.
DialNodeRecv(g, f) ==
    /\ pc[g] = "dialNode"
    /\ att[g].r[f].st = "res"
    /\ ~att[g].dnDone
    /\ LET a == att[g]
           res == a.r[f].c
           dnErr == First(a.dnErr, Err("dial", a.i, f))
       IN
        IF res # 0
        THEN /\ DialSucceeded(g, res, AfterDialNode(a))
             /\ goClose' = LeftToClose(goClose, a, f)
             /\ orphans' = orphans + LeftDialing(a, f)
        ELSE IF a.nwait = 1
        THEN /\ SetAtt(g, NodeFailed(a, dnErr))
             /\ SetPc(g, "dialRegion")
             /\ goClose' = LeftToClose(goClose, a, f)
             /\ orphans' = orphans + LeftDialing(a, f)
        ELSE /\ SetAtt(g, [a EXCEPT !.r[f] = RacerOff, !.nwait = a.nwait - 1, !.dnErr = dnErr])
             /\ UNCHANGED <<procVars, goClose, orphans, pw>>
    /\ UNCHANGED <<clientVars, histVars>>
    /\ UNCHANGED <<dialed, closes, wClose, pw>>

\* Lines 556-557: dialNode's ctx is done and it returns ctx.Err().
DialNodeCtxDone(g) ==
    /\ pc[g] = "dialNode"
    /\ att[g].dnDone
    /\ SetAtt(g, NodeFailed(att[g], Err("ctx", att[g].i, "")))
    /\ SetPc(g, "dialRegion")
    /\ goClose' = LeftToClose(goClose, att[g], "")
    /\ orphans' = orphans + LeftDialing(att[g], "")
    /\ UNCHANGED <<clientVars, histVars>>
    /\ UNCHANGED <<dialed, closes, wClose, pw>>

\* Line 507: dialNodeTimeout elapses.
DialNodeTimeout(g) ==
    /\ pc[g] = "dialNode"
    /\ ~att[g].dnDone
    /\ SetAtt(g, [att[g] EXCEPT !.dnDone = TRUE])
    /\ UNCHANGED <<clientVars, netVars, procVars, histVars>>

\* A racer left inside dialContext by a dialNode call that has returned: its dial
\* returns; a transport it got is closed by the ctx.Done case (lines 525-528).
OrphanDial ==
    /\ orphans > 0
    /\ orphans' = orphans - 1
    /\ \E ok \in BOOLEAN :
        IF ok /\ dialed < MaxConns
        THEN /\ dialed' = dialed + 1
             /\ goClose' = [goClose EXCEPT ![dialed + 1] = @ + 1]
        ELSE UNCHANGED <<dialed, goClose>>
    /\ UNCHANGED <<clientVars, att, procVars, histVars>>
    /\ UNCHANGED <<closes, wClose, pw>>

\* ------------------------------------------------------ dialNodeUsingProxy
\* The watcher goroutine of lines 592-599 on transport t is
\*   "off"       not spawned, or gone
\*   "spawned"   created, not yet at its select; dialNodeUsingProxy is running
\*   "parked"    waiting in its select, no case ready when it got there
\*   "returned"  created, not yet at its select, and dialNodeUsingProxy has
\*               returned: done is closed
\*   "closing"   through the ctx.Done case, about to call proxyConn.Close()
\* The ctx it selects on is the one connect made (line 195): it is done when the
\* 10 s pass, when a Close is propagated into it, and when connect returns (the
\* deferred cancel of line 208).
ProxyCtxLive(t) ==
    \E g \in Procs : InAttempt(g) /\ t \in att[g].proxied /\ ~att[g].ctxDone

\* Line 591, the deferred close(done): a watcher waiting in its select leaves by
\* the done case, unless the ctx had become done while it waited, which has
\* sent it to the ctx.Done case; one that has not got to its select finds done
\* closed when it does.
WatcherAtReturn(w, ctxDone) ==
    IF w = "parked" THEN (IF ctxDone THEN "closing" ELSE "off")
    ELSE IF w = "spawned" THEN "returned"
    ELSE w

\* Lines 497-499 and 570-599, on a connect attempt: the environment names a
\* proxy for node a.i, dialNode hands over to dialNodeUsingProxy, which dials
\* the proxy and, the dial having succeeded, spawns its watcher.
ProxyDial(g) ==
    /\ pc[g] = "dialRegion"
    /\ op[g] # "DialRegionTLS"
    /\ LET a == att[g] IN
        /\ a.i <= Len(a.nodes)
        /\ ~a.nodes[a.i].STUNOnly
        /\ \E ok \in BOOLEAN :
            IF ok /\ dialed < MaxConns
            THEN /\ dialed' = dialed + 1
                 /\ pw' = [pw EXCEPT ![dialed + 1] = "spawned"]
                 /\ SetAtt(g, [a EXCEPT !.proxyConn = dialed + 1,
                                         !.proxied = @ \cup {dialed + 1}])
                 /\ SetPc(g, "proxyConnect")
            ELSE /\ SetAtt(g, NodeFailed(a, Err("proxy", a.i, "")))
                 /\ UNCHANGED <<dialed, pw, procVars>>
    /\ UNCHANGED <<clientVars, histVars>>
    /\ UNCHANGED <<closes, goClose, wClose, orphans>>

\* Lines 601-630: the CONNECT request and its response, and the return.  With a
\* 200 response proxyConn is returned, through dialNode and dialRegion, to
\* connect; any failure returns an error, the deferred handler of lines 579-585
\* spawns "go proxyConn.Close()", and dialRegion goes on to the next node.
ProxyConnect(g) ==
    /\ pc[g] = "proxyConnect"
    /\ LET a == att[g]
           t == a.proxyConn
           b == [a EXCEPT !.proxyConn = 0]
       IN
        /\ pw' = [pw EXCEPT ![t] = WatcherAtReturn(@, a.ctxDone)]
        /\ \E ok \in BOOLEAN :
            IF ok /\ Open(t)
            THEN /\ DialSucceeded(g, t, b)
                 /\ UNCHANGED goClose
            ELSE /\ SetAtt(g, NodeFailed(b, Err("proxy", a.i, "")))
                 /\ SetPc(g, "dialRegion")
                 /\ goClose' = [goClose EXCEPT ![t] = @ + 1]
    /\ UNCHANGED <<clientVars, histVars>>
    /\ UNCHANGED <<dialed, closes, wClose, orphans>>

\* Lines 593-598: the watcher of t gets to its select, or is woken in it.  It
\* waits when no case is ready; it takes the case that is ready; with done
\* closed and the ctx done it takes one or the other.
ProxyWatcher(t) ==
    /\ \/ /\ pw[t] = "spawned"
          /\ pw' = [pw EXCEPT ![t] = IF ProxyCtxLive(t) THEN "parked" ELSE "closing"]
       \/ /\ pw[t] = "parked"
          /\ ~ProxyCtxLive(t)
          /\ pw' = [pw EXCEPT ![t] = "closing"]
       \/ /\ pw[t] = "returned"
          /\ \E w \in (IF ProxyCtxLive(t) THEN {"off"} ELSE {"off", "closing"}) :
                pw' = [pw EXCEPT ![t] = w]
    /\ UNCHANGED <<clientVars, att, procVars, histVars>>
    /\ UNCHANGED <<dialed, closes, goClose, wClose, orphans>>

\* Line 597: the watcher's proxyConn.Close().
ProxyWatcherClose(t) ==
    /\ pw[t] = "closing"
    /\ pw' = [pw EXCEPT ![t] = "off"]
    /\ closes' = CloseConn(closes, t)
    /\ UNCHANGED <<clientVars, att, procVars, histVars>>
    /\ UNCHANGED <<dialed, goClose, wClose, orphans>>

\* ------------------------------------------------- connect, after the dial
\* The blocking calls connect makes on the transport after the dial, in order.
\* Each can fail, and fails once the transport is closed:
\*   "tls"    tlsConn.Handshake() (line 278), HTTPS only
\*   "write"  req.Write, and brw.Flush on the slow-start path (lines 320, 326-331)
\*   "resp"   http.ReadResponse and the status check, slow start only (lines 333-341)
\*   "derp"   derp.NewClient (lines 343-351)
\*   "pref"   derpClient.NotePreferred(true), when c.preferred is set (lines 352-357)
Exchanges(https, fast, pref) ==
    (IF https THEN {"tls"} ELSE {}) \cup {"write", "derp"}
    \cup (IF fast THEN {} ELSE {"resp"}) \cup (IF pref THEN {"pref"} ELSE {})

\* Lines 271-311, followed to the branch of line 311: the TLS handshake, when
\* TLS is used, has succeeded with some version and peer chain (none of either
\* without TLS), and connect has decided between fast start and slow start.
ChooseStart(g) ==
    /\ pc[g] = "upgrade"
    /\ att[g].start = ""
    /\ Open(att[g].tcpConn)
    /\ \E version \in (IF UseHTTPS THEN TLSVersions ELSE {0}),
          certs \in (IF UseHTTPS THEN CertChains ELSE {<<>>}) :
        SetAtt(g, [att[g] EXCEPT
            !.version = version,
            !.certs = certs,
            !.start = IF FastStart(UseHTTPS, version, certs) THEN "fast" ELSE "slow"])
    /\ UNCHANGED <<clientVars, netVars, procVars, histVars>>

\* The fast-start decisions open to an attempt: the one it has taken, or any
\* that a handshake can lead to.
StartChoices(a) ==
    IF a.start # "" THEN {a.start = "fast"}
    ELSE IF UseHTTPS THEN FastStarts ELSE {FALSE}

\* What a RELAY client has been told by a successful NotePreferred(v).
Told(v) == IF v THEN "true" ELSE "false"

\* connect installs the client without telling it of the flag.
NotedNever(pref, was) == was

\* Lines 352-357: connect tells the new client of a set c.preferred, and tells
\* it nothing otherwise.
NotedAtConnect(pref, was) == IF pref THEN Told(TRUE) ELSE was

\* connect forgets c.connGen++.
KeepGen(n) == n

\* Line 362: c.connGen++.
NextGen(n) == n + 1

\* Lines 268-364: the exchanges, up to the one that fails (failedAt), or all of
\* them and then the slot becomes Live and connect returns.  No other goroutine
\* can tell how far the exchanges have got, so they make one step.  When
\* NotePreferred fails "go httpConn.Close()" runs besides the deferred handler's
\* "go tcpConn.Close()".
Upgrade(g) ==
    /\ pc[g] = "upgrade"
    /\ \E fast \in StartChoices(att[g]) :
       \E failedAt \in Exchanges(UseHTTPS /\ att[g].start = "", fast, preferred) \cup {"none"} :
        IF failedAt = "none" /\ Open(att[g].tcpConn)
        THEN LET t == att[g].tcpConn IN
             /\ serverPubKey' = t
             /\ client' = t
             /\ netConn' = t
             /\ connGen' = NextGen(connGen)
             /\ genOf' = [genOf EXCEPT ![t] = NextGen(connGen)]
             /\ noted' = [noted EXCEPT ![t] = NotedAtConnect(preferred, @)]
             /\ mu' = Free
             /\ SetAtt(g, NoAtt)
             /\ Obtained(g, t, NextGen(connGen))
             /\ UNCHANGED goClose
        ELSE /\ FailConnect(g, IF failedAt = "pref" THEN 2 ELSE 1)
             /\ UNCHANGED <<client, netConn, connGen, serverPubKey, genOf, noted>>
    /\ UNCHANGED <<closed, preferred, cancelled, target>>
    /\ UNCHANGED <<dialed, closes, wClose, orphans, pw, nops, handed, teardowns>>

\* ------------------------------------------------ contexts and watchers
\* The attempt's ctx becomes done by itself: the 10 s timeout of line 195 (for
\* DialRegionTLS and Connect, also the caller's ctx).  A running dialNode's ctx
\* is derived from it.
CtxExpire(g) ==
    /\ InAttempt(g)
    /\ ~att[g].ctxDone
    /\ SetAtt(g, [att[g] EXCEPT !.ctxDone = TRUE,
                                !.dnDone = (pc[g] = "dialNode") \/ att[g].dnDone])
    /\ UNCHANGED <<clientVars, netVars, procVars, histVars>>

\* Lines 196-207: the goroutine that turns c.ctx being done into cancel().
PropagateClose(g) ==
    /\ InAttempt(g)
    /\ op[g] # "DialRegionTLS"
    /\ cancelled
    /\ ~att[g].ctxDone
    /\ SetAtt(g, [att[g] EXCEPT !.ctxDone = TRUE,
                                !.dnDone = (pc[g] = "dialNode") \/ att[g].dnDone])
    /\ UNCHANGED <<clientVars, netVars, procVars, histVars>>

\* Lines 248-262 (and 445-449): the watcher takes the ctx.Done case while done is
\* still open, and so goes on to close the transport.
WatcherFire(g) ==
    /\ att[g].watching
    /\ att[g].ctxDone
    /\ wClose' = wClose \cup {att[g].tcpConn}
    /\ SetAtt(g, [att[g] EXCEPT !.watching = FALSE])
    /\ UNCHANGED <<clientVars, procVars, histVars>>
    /\ UNCHANGED <<dialed, closes, goClose, orphans, pw>>

\* Line 263 (and 449): the watcher's tcpConn.Close().
WatcherClose(t) ==
    /\ t \in wClose
    /\ wClose' = wClose \ {t}
    /\ closes' = CloseConn(closes, t)
    /\ UNCHANGED <<clientVars, att, procVars, histVars>>
    /\ UNCHANGED <<dialed, goClose, orphans, pw>>

\* Lines 227, 354 and 525-528: a goroutine spawned to close transport t runs.
AsyncClose(t) ==
    /\ goClose[t] > 0
    /\ goClose' = [goClose EXCEPT ![t] = @ - 1]
    /\ closes' = CloseConn(closes, t)
    /\ UNCHANGED <<clientVars, att, procVars, histVars>>
    /\ UNCHANGED <<dialed, wClose, orphans, pw>>

\* ------------------------------------------------------ the RELAY operations
\* The RELAY client (package derp, outside this file): a call on it succeeds only
\* if the network lets it (ok) and the transport beneath the client is open.
RelaySucceeds(ok, t) == ok /\ Open(t)

\* A RELAY operation that returns its error without calling closeForReconnect.
RelayIONoReconnect(g) ==
    /\ pc[g] = "io"
    /\ \E ok \in BOOLEAN :
        Return(g, gen[g], IF RelaySucceeds(ok, cl[g]) THEN "nil" ELSE "relayerr")
    /\ UNCHANGED <<clientVars, netVars, att, histVars>>

\* Lines 638, 649, 715, 730, 751: the call on the RELAY client connect returned.
\* It cannot succeed once the transport beneath the client is closed.
RelayIO(g) ==
    /\ pc[g] = "io"
    /\ \E ok \in BOOLEAN :
        IF RelaySucceeds(ok, cl[g])
        THEN Return(g, gen[g], "nil")
        ELSE SetPc(g, "closeForReconnect")
    /\ UNCHANGED <<clientVars, netVars, att, histVars>>

\* closeForReconnect without its comparison with brokenClient.
AnyClient(k, brokenClient) == TRUE

\* Line 797: c.client is the client the caller found broken.
IsBroken(k, brokenClient) == k = brokenClient

\* closeForReconnect forgets the transport without closing it.
DropNetConn(cs, nc) == cs

\* Lines 800-801: c.netConn.Close() when c.netConn is set.
CloseNetConn(cs, nc) == IF nc # 0 THEN CloseConn(cs, nc) ELSE cs

\* closeForReconnect without its "c.client = nil" (line 804).
closeForReconnectKeepsClient(g) ==
    /\ pc[g] = "closeForReconnect"
    /\ mu = Free
    /\ IF ~IsBroken(client, cl[g])
       THEN UNCHANGED <<netConn, closes, teardowns>>
       ELSE /\ closes' = CloseNetConn(closes, netConn)
            /\ netConn' = 0
            /\ teardowns' = [teardowns EXCEPT ![cl[g]] = @ + 1]
    /\ IF op[g] = "Recv" THEN SetPc(g, "isClosed")
       ELSE IF op[g] = "NotePreferred" THEN Return(g, gen[g], "void")
       ELSE Return(g, gen[g], "relayerr")
    /\ UNCHANGED <<mu, closed, preferred, client, connGen, serverPubKey, cancelled, target>>
    /\ UNCHANGED <<dialed, goClose, wClose, orphans, pw, att, nops, handed, genOf, noted>>

\* closeForReconnect (lines 794-805), and the return of the operation that called
\* it; RecvDetail goes on to isClosed, NotePreferred returns nothing.
closeForReconnect(g) ==
    /\ pc[g] = "closeForReconnect"
    /\ mu = Free
    /\ IF ~IsBroken(client, cl[g])
       THEN UNCHANGED <<client, netConn, closes, teardowns>>
       ELSE /\ closes' = CloseNetConn(closes, netConn)
            /\ netConn' = 0
            /\ client' = 0
            /\ teardowns' = [teardowns EXCEPT ![cl[g]] = @ + 1]
    /\ IF op[g] = "Recv" THEN SetPc(g, "isClosed")
       ELSE IF op[g] = "NotePreferred" THEN Return(g, gen[g], "void")
       ELSE Return(g, gen[g], "relayerr")
    /\ UNCHANGED <<mu, closed, preferred, connGen, serverPubKey, cancelled, target>>
    /\ UNCHANGED <<dialed, goClose, wClose, orphans, pw, att, nops, handed, genOf, noted>>

\* RecvDetail without the isClosed check of lines 755-757.
isClosedIgnored(g) ==
    /\ pc[g] = "isClosed"
    /\ mu = Free
    /\ Return(g, gen[g], "relayerr")
    /\ UNCHANGED <<clientVars, netVars, att, histVars>>

\* Lines 754-758 and 761-765: RecvDetail turns its error into ErrClientClosed when
\* isClosed reports the handle closed.
isClosed(g) ==
    /\ pc[g] = "isClosed"
    /\ mu = Free
    /\ Return(g, gen[g], IF closed THEN "ErrClientClosed" ELSE "relayerr")
    /\ UNCHANGED <<clientVars, netVars, att, histVars>>

\* SendPong, lines 662-673: the checks under the mutex.
SendPong(g) ==
    /\ pc[g] = "SendPong"
    /\ mu = Free
    /\ IF closed THEN Return(g, 0, "ErrClientClosed")
       ELSE IF client = 0 THEN Return(g, 0, "notconnected")
       ELSE SetProc(g, "pongIO", client, 0, "none")
    /\ UNCHANGED <<clientVars, netVars, att, histVars>>

\* SendPong calling closeForReconnect on an error, as Send does.
SendPongReconnect(g) ==
    /\ pc[g] = "pongIO"
    /\ \E ok \in BOOLEAN :
        IF RelaySucceeds(ok, cl[g])
        THEN Return(g, 0, "nil")
        ELSE SetPc(g, "closeForReconnect")
    /\ UNCHANGED <<clientVars, netVars, att, histVars>>

\* SendPong, line 675: the RELAY client's result is returned as it is.
SendPongIO(g) ==
    /\ pc[g] = "pongIO"
    /\ \E ok \in BOOLEAN :
        Return(g, 0, IF RelaySucceeds(ok, cl[g]) THEN "nil" ELSE "relayerr")
    /\ UNCHANGED <<clientVars, netVars, att, histVars>>

\* NotePreferred without the "c.preferred == v" return of lines 691-694.
NotePreferredAlways(g) ==
    /\ pc[g] = "NotePreferred"
    /\ mu = Free
    /\ preferred' = arg[g]
    /\ IF client # 0
       THEN SetProc(g, "notePreferredIO", client, 0, "none")
       ELSE Return(g, 0, "void")
    /\ UNCHANGED <<mu, closed, client, netConn, connGen, serverPubKey, cancelled, target>>
    /\ UNCHANGED <<netVars, att, histVars>>

\* NotePreferred, lines 690-697: the part under the mutex.
NotePreferred(g) ==
    /\ pc[g] = "NotePreferred"
    /\ mu = Free
    /\ IF preferred = arg[g]
       THEN /\ Return(g, 0, "void")
            /\ UNCHANGED preferred
       ELSE /\ preferred' = arg[g]
            /\ IF client # 0
               THEN SetProc(g, "notePreferredIO", client, 0, "none")
               ELSE Return(g, 0, "void")
    /\ UNCHANGED <<mu, closed, client, netConn, connGen, serverPubKey, cancelled, target>>
    /\ UNCHANGED <<netVars, att, histVars>>

\* NotePreferred, lines 699-703: the RELAY client is told, closeForReconnect on error.
NotePreferredIO(g) ==
    /\ pc[g] = "notePreferredIO"
    /\ \E ok \in BOOLEAN :
        IF RelaySucceeds(ok, cl[g])
        THEN /\ Return(g, 0, "void")
             /\ noted' = [noted EXCEPT ![cl[g]] = Told(arg[g])]
        ELSE /\ SetPc(g, "closeForReconnect")
             /\ UNCHANGED noted
    /\ UNCHANGED <<clientVars, netVars, att, nops, handed, genOf, teardowns>>

\* Close without its check of c.closed.
NeverClosed(c) == FALSE

\* Lines 774-776: Close finds the handle closed already.
AlreadyClosed(c) == c

\* Close leaves the stored transport open.
LeaveStored(cs, nc) == cs

\* Lines 778-780: c.netConn.Close() when c.netConn is set.
CloseStored(cs, nc) == IF nc # 0 THEN CloseConn(cs, nc) ELSE cs

\* Close, lines 772-781 (its cancelCtx of line 770 ran when it was called).
Close(g) ==
    /\ pc[g] = "Close"
    /\ mu = Free
    /\ IF AlreadyClosed(closed)
       THEN /\ Return(g, 0, "ErrClientClosed")
            /\ UNCHANGED <<closed, closes>>
       ELSE /\ closed' = TRUE
            /\ closes' = CloseStored(closes, netConn)
            /\ Return(g, 0, "nil")
    /\ UNCHANGED <<mu, preferred, client, netConn, connGen, serverPubKey, cancelled, target>>
    /\ UNCHANGED <<dialed, goClose, wClose, orphans, pw, att, histVars>>

\* ------------------------------------------------------------ DialRegionTLS
\* Line 437: DialRegionTLS calls dialRegion on the region its caller passes.
DialRegionTLS(g) ==
    /\ pc[g] = "DialRegionTLS"
    /\ \E reg \in Regions :
        SetAtt(g, [NoAtt EXCEPT !.nodes = reg, !.i = 1])
    /\ SetPc(g, "dialRegion")
    /\ UNCHANGED <<clientVars, netVars, histVars>>

\* The watcher of lines 445-450 when DialRegionTLS returns an error and its
\* deferred close(done) runs (line 442).  A watcher waiting in its select leaves
\* by the done case and closes nothing.  One that has not got to its select
\* finds done closed: it takes that case, or, the caller's ctx being done by
\* then (late), it may take the other and close the transport.
WatcherAfterError(ws, a, late) ==
    IF a.watching /\ late THEN ws \cup {a.tcpConn} ELSE ws

\* Lines 452-455: the handshake.  On its failure DialRegionTLS returns the
\* error; nothing in it closes tcpConn but the watcher.
DialRegionTLSHandshake(g) ==
    /\ pc[g] = "tlsHandshake"
    /\ \E ok \in BOOLEAN :
        IF ok /\ Open(att[g].tcpConn)
        THEN /\ SetPc(g, "handOff")
             /\ UNCHANGED <<att, wClose>>
        ELSE /\ Return(g, 0, "dialerr")
             /\ SetAtt(g, NoAtt)
             /\ \E late \in BOOLEAN : wClose' = WatcherAfterError(wClose, att[g], late)
    /\ UNCHANGED <<clientVars, histVars>>
    /\ UNCHANGED <<dialed, closes, goClose, orphans, pw>>

\* Lines 456-461: the hand-off.  "done <- true" needs the watcher in its select,
\* which it leaves by the done case, and the caller gets the transport; the
\* other case needs the ctx done, and returns its error.
DialRegionTLSHandOff(g) ==
    /\ pc[g] = "handOff"
    /\ \/ /\ att[g].watching
          /\ Return(g, 0, "nil")
          /\ handed' = handed \cup {att[g].tcpConn}
          /\ UNCHANGED wClose
       \/ /\ att[g].ctxDone
          /\ Return(g, 0, "dialerr")
          /\ \E late \in BOOLEAN : wClose' = WatcherAfterError(wClose, att[g], late)
          /\ UNCHANGED handed
    /\ SetAtt(g, NoAtt)
    /\ UNCHANGED <<clientVars, nops, genOf, teardowns, noted>>
    /\ UNCHANGED <<dialed, closes, goClose, orphans, pw>>

\* ------------------------------------------------------------ specification
\* Goroutine g calls one of the operations Ops.
CallAny(g, Ops) ==
    \E o \in Ops, v \in BOOLEAN : (o # "NotePreferred" => ~v) /\ Call(g, o, v)

\* The steps of Connect, Send and Close, connect included (URL plan).
ConnectSteps(g) ==
    \/ ConnectEnter(g)
    \/ DialURL(g)
    \/ Upgrade(g)
    \/ CtxExpire(g)
    \/ PropagateClose(g)
    \/ WatcherFire(g)
    \/ RelayIO(g)
    \/ closeForReconnect(g)
    \/ Close(g)

\* The steps of the operations on the handle.
Lifecycle(g) ==
    \/ ConnectSteps(g)
    \/ isClosed(g)
    \/ SendPong(g)
    \/ SendPongIO(g)
    \/ NotePreferred(g)
    \/ NotePreferredIO(g)

\* The steps of dialRegion and dialNode.
RegionDial(g) ==
    \/ GetRegion(g)
    \/ DialRegionStep(g)
    \/ \E f \in Fams : RacerDial(g, f)
    \/ \E f \in Fams : RacerCtxDone(g, f)
    \/ \E f \in Fams : DialNodeRecv(g, f)
    \/ DialNodeCtxDone(g)
    \/ DialNodeTimeout(g)

\* The steps of DialRegionTLS.
TLSDial(g) ==
    \/ DialRegionTLS(g)
    \/ DialRegionTLSHandshake(g)
    \/ DialRegionTLSHandOff(g)

\* The goroutines the handle spawns to close transports.
Closers ==
    \/ \E t \in Conns : WatcherClose(t)
    \/ \E t \in Conns : AsyncClose(t)

CoreOps == {"Connect", "Send", "Recv", "SendPong", "NotePreferred", "Close"}

\* Two callers on a handle built by NewClient (URL plan).
Next ==
    \/ \E g \in Procs : CallAny(g, CoreOps)
    \/ \E g \in Procs : Lifecycle(g)
    \/ Closers

Spec == Init /\ [][Next]_vars

\* What the scheduler and the network guarantee.  A goroutine the handle spawned
\* (the watchers, the closers) runs once it can; Close gets the mutex once it
\* stays free; a dial whose ctx is done returns, and so do the exchanges on a
\* transport that has been closed.  Nothing else is promised: a dial or an
\* exchange may block for ever, and the 10 s timeout is not counted on.
Fairness ==
    /\ \A g \in Procs :
        /\ WF_vars(PropagateClose(g))
        /\ WF_vars(WatcherFire(g))
        /\ WF_vars(DialURL(g) /\ att[g].ctxDone)
        /\ WF_vars(Upgrade(g) /\ ~Open(att[g].tcpConn))
        /\ WF_vars(Close(g))
    /\ \A t \in Conns : WF_vars(WatcherClose(t)) /\ WF_vars(AsyncClose(t))

\* Two callers that connect, send and close, under the guarantees above.
CloseOps == {"Connect", "Send", "Close"}

NextClose ==
    \/ \E g \in Procs : CallAny(g, CloseOps)
    \/ \E g \in Procs : ConnectSteps(g)
    \/ Closers

FairSpec == Init /\ [][NextClose]_vars /\ Fairness

\* ------------------------------------------------- a handle on a region
\* The state after NewRegionClient (lines 77-89): no URL, a getRegion function.
InitRegion == Start("region")

\* Line 119: one caller calls Connect, MaxAttempts times at most.
CallConnect ==
    /\ nops < MaxAttempts
    /\ Call(Caller1, "Connect", FALSE)

\* Connect on a region handle: connect with dialRegion and dialNode, the
\* goroutines they leave behind included.
NextRegion ==
    \/ CallConnect
    \/ ConnectEnter(Caller1)
    \/ RegionDial(Caller1)
    \/ Upgrade(Caller1)
    \/ CtxExpire(Caller1)
    \/ WatcherFire(Caller1)
    \/ OrphanDial
    \/ Closers

\* What the scheduler, the timers and the network guarantee while a region is
\* dialed.  dialNode's 1.5 s timer fires (line 507); a dialContext whose ctx is
\* done returns; a goroutine in a select takes a case that is ready; a goroutine
\* spawned to close a transport runs.  A dial under a live ctx may block.
FairnessRegion ==
    /\ WF_vars(DialNodeTimeout(Caller1))
    /\ WF_vars(DialNodeCtxDone(Caller1))
    /\ \A f \in Fams :
        /\ WF_vars(RacerDial(Caller1, f) /\ att[Caller1].dnDone)
        /\ WF_vars(RacerCtxDone(Caller1, f))
    /\ WF_vars(OrphanDial)
    /\ WF_vars(WatcherFire(Caller1))
    /\ \A t \in Conns : WF_vars(WatcherClose(t)) /\ WF_vars(AsyncClose(t))

SpecRegion == InitRegion /\ [][NextRegion]_vars /\ FairnessRegion

\* ------------------------------------------- the upgrade, step by step
\* The state after NewClient (lines 97-115) with an https or an http URL.
InitTLS == \E tg \in {"https", "http"} : Start(tg)

\* Connect on a URL handle, the choice between fast start and slow start made
\* a step of its own.
NextTLS ==
    \/ CallConnect
    \/ ConnectEnter(Caller1)
    \/ DialURL(Caller1)
    \/ ChooseStart(Caller1)
    \/ Upgrade(Caller1)
    \/ CtxExpire(Caller1)
    \/ WatcherFire(Caller1)
    \/ Closers

SpecTLS == InitTLS /\ [][NextTLS]_vars

\* Connect on a URL handle, the DNS cache lookup of dialURL made a step of its
\* own.
NextURL ==
    \/ Call(Caller1, "Connect", FALSE)
    \/ ConnectEnter(Caller1)
    \/ LookupIP(Caller1)
    \/ DialURL(Caller1)
    \/ Upgrade(Caller1)
    \/ CtxExpire(Caller1)
    \/ WatcherFire(Caller1)
    \/ Closers

SpecURL == InitTLS /\ [][NextURL]_vars

\* ------------------------------------------------ attempts that fail
\* The state after NewClient with an https URL or after NewRegionClient.
InitAny == \E tg \in {"https", "region"} : Start(tg)

\* One caller: on a region handle it calls Connect (MaxAttempts times at most),
\* on a URL handle Connect and NotePreferred.
CallOne ==
    IF target = "region"
    THEN CallConnect
    ELSE CallAny(Caller1, {"Connect", "NotePreferred"})

\* Connect and NotePreferred by one caller, every way an attempt can go.
NextOne ==
    \/ CallOne
    \/ ConnectEnter(Caller1)
    \/ DialURL(Caller1)
    \/ RegionDial(Caller1)
    \/ Upgrade(Caller1)
    \/ CtxExpire(Caller1)
    \/ WatcherFire(Caller1)
    \/ NotePreferred(Caller1)
    \/ NotePreferredIO(Caller1)
    \/ closeForReconnect(Caller1)
    \/ OrphanDial
    \/ Closers

\* The guarantees of Fairness and FairnessRegion that bear on one caller.
FairnessOne ==
    /\ FairnessRegion
    /\ WF_vars(DialURL(Caller1) /\ att[Caller1].ctxDone)
    /\ WF_vars(Upgrade(Caller1) /\ ~Open(att[Caller1].tcpConn))

SpecOne == InitAny /\ [][NextOne]_vars /\ FairnessOne

\* ------------------------------------------------------- DialRegionTLS
\* Line 436: one caller calls DialRegionTLS, MaxAttempts times at most.
CallDialRegionTLS ==
    /\ nops < MaxAttempts
    /\ Call(Caller1, "DialRegionTLS", FALSE)

\* DialRegionTLS on a region handle, with the goroutines it leaves behind.  Its
\* ctx is the caller's, which can become done at any time.
NextDialTLS ==
    \/ CallDialRegionTLS
    \/ TLSDial(Caller1)
    \/ DialRegionStep(Caller1)
    \/ \E f \in Fams : RacerDial(Caller1, f)
    \/ \E f \in Fams : RacerCtxDone(Caller1, f)
    \/ \E f \in Fams : DialNodeRecv(Caller1, f)
    \/ DialNodeCtxDone(Caller1)
    \/ DialNodeTimeout(Caller1)
    \/ CtxExpire(Caller1)
    \/ WatcherFire(Caller1)
    \/ OrphanDial
    \/ Closers

\* The guarantees of FairnessRegion, and these: a handshake on a closed
\* transport returns, and so does the hand-off once the ctx is done.
FairnessDialTLS ==
    /\ FairnessRegion
    /\ WF_vars(DialRegionTLSHandshake(Caller1) /\ ~Open(att[Caller1].tcpConn))
    /\ WF_vars(DialRegionTLSHandOff(Caller1))

SpecDialTLS == InitRegion /\ [][NextDialTLS]_vars /\ FairnessDialTLS

\* ------------------------------------------------ dialing through a proxy
\* Connect on a region handle in an environment that names a proxy for some
\* nodes and none for others.
NextProxy ==
    \/ NextRegion
    \/ ProxyDial(Caller1)
    \/ ProxyConnect(Caller1)
    \/ \E t \in Conns : ProxyWatcher(t)
    \/ \E t \in Conns : ProxyWatcherClose(t)

SpecProxy == InitRegion /\ [][NextProxy]_vars

\* ------------------------------------------------------------------ claims
\* The transports that have been stored in the slot.
Installed == {t \in Conns : genOf[t] > 0}

\* The goroutine takes a step of its own in the pair of states.
Steps(g) == pc'[g] # pc[g]

\* C1, as stated: at most one transport (dialed and not yet closed) is open at
\* any time.
C1_AtMostOneOpen == Cardinality(OpenConns) <= 1

\* C1, amended: of the transports the slot has held at most one is open at any
\* time, and an open one is the one the slot holds: a transport is closed
\* before it leaves the slot.
C1_AtMostOneInstalledOpen ==
    /\ Cardinality({t \in Installed : Open(t)}) <= 1
    /\ \A t \in Installed : Open(t) => netConn = t

\* A reconnect has happened: the slot holds an open transport and the one it
\* held before is closed.
C1_Witness ==
    \E t \in Installed : ~Open(t) /\ netConn # 0 /\ netConn # t /\ Open(netConn) /\ teardowns[t] = 1

\* C2: connGen counts the successful connects, each of which adds exactly 1 and
\* nothing else changes it; no two connections carry the same generation; the
\* client in the slot carries the current generation; an operation obtains the
\* current generation, never one below what it obtained before, and a successful
\* RELAY operation returns the generation that is current when it returns.
C2_Generations ==
    /\ [](connGen = Cardinality(Installed))
    /\ [](\A t \in Installed, u \in Installed : genOf[t] = genOf[u] => t = u)
    /\ [](client # 0 => genOf[client] = connGen)
    /\ [](\A g \in Procs : pc[g] \in {"io", "closeForReconnect"} /\ op[g] \in RelayOps
                           => gen[g] >= 1 /\ gen[g] = genOf[cl[g]])
    /\ [][connGen' # connGen =>
            /\ connGen' = connGen + 1
            /\ client = 0 /\ client' # 0 /\ genOf[client'] = 0 /\ Open(client')
            /\ \E g \in Procs : pc[g] = "upgrade" /\ Steps(g)]_vars
    /\ [][\A g \in Procs : gen'[g] # gen[g] /\ gen'[g] # 0 =>
            gen'[g] = connGen' /\ gen'[g] >= gen[g]]_vars
    /\ [][\A g \in Procs : pc[g] = "io" /\ pc'[g] = "done" /\ ret'[g] = "nil" =>
            gen'[g] = connGen]_vars

\* A second connection is live, under generation 2, and an operation runs on it
\* while the other caller still holds the client of generation 1.
C2_Witness ==
    /\ connGen = 2
    /\ \E g \in Procs, h \in Procs :
        pc[g] = "io" /\ gen[g] = 2 /\ pc[h] = "closeForReconnect" /\ gen[h] = 1

\* The first step of every public operation but NotePreferred.
ErrorEntries == {"connect", "SendPong", "Close"}

\* C3, as stated: once the handle is closed every public operation that is
\* entered, NotePreferred among them, returns ErrClientClosed at once, and no
\* transport is dialed.
C3_EveryOpClosed ==
    /\ [][\A g \in Procs : closed /\ pc[g] \in ErrorEntries \cup {"NotePreferred"} /\ Steps(g)
            => pc'[g] = "done" /\ ret'[g] = "ErrClientClosed"]_vars
    /\ [][closed => dialed' = dialed]_vars

\* C3, amended: once the handle is closed, Connect, Send, ForwardPacket, Recv,
\* RecvDetail, WatchConnectionChanges, ClosePeer, SendPong and Close return
\* ErrClientClosed as their first step; no operation on the slot dials, and the
\* slot, the generation and the flag stay as they are unless closeForReconnect
\* empties the slot.
C3_ErrorOpsClosed ==
    /\ [][\A g \in Procs : closed /\ pc[g] \in ErrorEntries /\ Steps(g)
            => /\ pc'[g] = "done" /\ ret'[g] = "ErrClientClosed"
               /\ UNCHANGED <<client, netConn, connGen, closes>>]_vars
    /\ [][closed => /\ dialed' = dialed /\ closed' /\ connGen' = connGen
                    /\ client' \in {client, 0}]_vars

\* On a closed handle whose slot still holds a client an operation has been
\* refused with ErrClientClosed before it obtained any generation.
C3_Witness ==
    /\ closed /\ client # 0
    /\ \E g \in Procs : pc[g] = "done" /\ ret[g] = "ErrClientClosed" /\ gen[g] = 0

C5_OneTeardown ==
    /\ [](\A t \in Conns : teardowns[t] <= 1)
    /\ [][\A g \in Procs : pc[g] = "closeForReconnect" /\ Steps(g) =>
            IF client = cl[g]
            THEN client' = 0 /\ netConn' = 0 /\ closes'[cl[g]] = closes[cl[g]] + 1
            ELSE UNCHANGED <<client, netConn, connGen, closes, teardowns>>]_vars

\* Two callers found the same client broken; one has torn it down and a newer
\* connection is live when the other is about to call closeForReconnect.
C5_Witness ==
    \E h \in Procs :
        /\ pc[h] = "closeForReconnect" /\ op[h] \in RelayOps
        /\ teardowns[cl[h]] = 1
        /\ client # 0 /\ client # cl[h] /\ Open(client)

\* C6, as stated: while closed is true the slot holds neither a client nor a
\* transport.
C6_ClosedSlotEmpty == closed => client = 0 /\ netConn = 0

\* C6, amended: while closed is true the slot may still hold the client and the
\* transport Close found there, but that transport has been closed, and nothing
\* new is stored in the slot.
C6_ClosedSlotDead ==
    /\ [](closed => /\ netConn # 0 => ~Open(netConn)
                    /\ client # 0 => netConn = client)
    /\ [][closed => client' \in {client, 0} /\ netConn' \in {netConn, 0}]_vars

\* Close has run on a Live slot: the handle is closed and still holds the client.
C6_Witness == closed /\ client # 0 /\ netConn = client /\ closes[netConn] = 1

\* C7: no step of SendPong dials or changes the slot, the generation, the closed
\* flag or any transport; it returns ErrClientClosed on a closed handle, "not
\* connected" on an Empty slot, and else what the RELAY client returns, without
\* going on to closeForReconnect.
C7_SendPongFrame ==
    [][\A g \in Procs : op[g] = "SendPong" /\ Steps(g) =>
        /\ UNCHANGED <<client, netConn, connGen, closed, dialed, closes, goClose, teardowns>>
        /\ pc[g] = "SendPong" =>
            IF closed THEN pc'[g] = "done" /\ ret'[g] = "ErrClientClosed"
            ELSE IF client = 0 THEN pc'[g] = "done" /\ ret'[g] = "notconnected"
            ELSE pc'[g] = "pongIO" /\ cl'[g] = client
        /\ pc[g] = "pongIO" => pc'[g] = "done" /\ ret'[g] \in {"nil", "relayerr"}
        /\ pc[g] \in {"SendPong", "pongIO"}]_vars

\* SendPong has returned the RELAY client's error and the slot still holds the
\* client, on a dead transport.
C7_Witness ==
    /\ ~closed /\ client # 0 /\ ~Open(client)
    /\ \E g \in Procs : pc[g] = "done" /\ ret[g] = "relayerr" /\ gen[g] = 0

\* C8: closed never becomes false again; a Close on a handle not closed sets
\* closed, closes the stored transport if any and no other, and returns nil; a
\* Close on a closed handle returns ErrClientClosed and closes nothing.
C8_ClosedAbsorbing ==
    /\ [][closed => closed']_vars
    /\ [][\A g \in Procs : pc[g] = "Close" /\ Steps(g) =>
            /\ pc'[g] = "done" /\ closed'
            /\ IF closed
               THEN ret'[g] = "ErrClientClosed" /\ closes' = closes
               ELSE /\ ret'[g] = "nil"
                    /\ \A t \in Conns : closes'[t] = closes[t] + (IF t = netConn THEN 1 ELSE 0)]_vars

\* A second Close has been called on a closed handle whose slot holds the
\* transport the first Close closed.
C8_Witness ==
    /\ closed /\ netConn # 0 /\ closes[netConn] = 1
    /\ \E g \in Procs : pc[g] = "Close"

C10_CloseCancelsConnect ==
    /\ (\E g \in Procs, h \in Procs : InAttempt(g) /\ pc[h] = "Close")
         ~> (closed /\ mu = Free /\ OpenConns = {} /\ \A g \in Procs : ~InAttempt(g) /\ pc[g] # "Close")
    /\ [][\A g \in Procs : closed /\ pc[g] \in ErrorEntries /\ Steps(g)
            => ret'[g] = "ErrClientClosed" /\ dialed' = dialed]_vars

\* Close has been called and waits for the mutex while an attempt that has
\* dialed holds it, its ctx made done.
C10_Witness ==
    \E g \in Procs, h \in Procs :
        /\ pc[g] = "upgrade" /\ mu = g /\ att[g].ctxDone /\ Open(att[g].tcpConn)
        /\ pc[h] = "Close" /\ cancelled /\ ~closed

C12_NotePreferredIdempotent ==
    /\ [][preferred' # preferred =>
            \E g \in Procs : pc[g] = "NotePreferred" /\ Steps(g)]_vars
    /\ [][\A g \in Procs : pc[g] = "NotePreferred" /\ Steps(g) =>
            /\ preferred' = arg[g]
            /\ pc'[g] \in {"done", "notePreferredIO"}
            /\ preferred = arg[g] =>
                /\ pc'[g] = "done" /\ ret'[g] = "void"
                /\ UNCHANGED <<clientVars, netVars, att, histVars>>]_vars
    /\ [][\A g \in Procs : op[g] = "NotePreferred" /\ Steps(g) =>
            /\ pc'[g] \in {"notePreferredIO", "closeForReconnect", "done"}
            /\ dialed' = dialed /\ connGen' = connGen /\ att' = att
            /\ client' \in {client, 0}]_vars

\* One caller on a Live handle is in its second consecutive NotePreferred(true):
\* the first one (which returned nothing) has set the flag and told the client.
C12_Witness ==
    \E g \in Procs :
        /\ pc[g] = "NotePreferred" /\ arg[g] /\ preferred
        /\ ret[g] = "void"
        /\ \A h \in Procs \ {g} : ret[h] = "none"
        /\ nops = 3
        /\ client # 0 /\ Open(client)

\* C13: when dialRegion has gone through the whole node list without a
\* connection, the error it is about to return is the dial error of the first
\* node that is not STUN-only; it is the synthesized "no non-STUNOnly nodes"
\* error only when every node is STUN-only.
C13_FirstDialError ==
    \A g \in Procs :
        LET a == att[g]
            dialable == {k \in 1..Len(a.nodes) : ~a.nodes[k].STUNOnly}
        IN (pc[g] = "dialRegion" /\ Len(a.nodes) > 0 /\ a.i > Len(a.nodes)) =>
            IF dialable = {}
            THEN a.firstErr.kind = "stunonly"
            ELSE /\ a.firstErr.kind # "stunonly"
                 /\ a.firstErr.node \in dialable
                 /\ \A k \in dialable : a.firstErr.node <= k

\* The transports something still refers to: the slot, an attempt's tcpConn, a
\* racer of a running dialNode.
Held ==
    {netConn} \cup {att[g].tcpConn : g \in Procs}
    \cup {att[g].r[f].c : g \in Procs, f \in Fams}

\* No dialNode is running, no racer is left inside a dial, and every transport
\* that nothing refers to is closed.
RacersSettled ==
    /\ \A g \in Procs : pc[g] # "dialNode"
    /\ orphans = 0
    /\ \A t \in 1..dialed : Open(t) => t \in Held

\* C14: the race of dialNode.  When dialNode returns a connection it is the one
\* of a racer whose success it received, while its ctx was not done, and
\* dialNode neither closes it nor has it closed; every other racer holding a
\* connection is left to close it and every racer still dialing is left to its
\* dial.  When the last started racer fails, the first error received is
\* returned; once the ctx is done dialNode receives nothing more and returns the
\* ctx error.  And every racer terminates and every connection nothing refers
\* to is closed, again and again for ever.
C14_DialNodeRace ==
    /\ [][\A g \in Procs : (pc[g] = "dialNode" /\ Steps(g)) =>
            LET a == att[g] IN
            IF pc'[g] = "upgrade"
            THEN \E f \in Fams :
                    /\ a.r[f].st = "res" /\ a.r[f].c # 0 /\ ~a.dnDone
                    /\ att'[g].tcpConn = a.r[f].c
                    /\ closes' = closes /\ closes[a.r[f].c] = 0
                    /\ goClose'[a.r[f].c] = goClose[a.r[f].c]
                    /\ \A x \in Fams \ {f} :
                        /\ (a.r[x].st = "res" /\ a.r[x].c # 0) =>
                                goClose'[a.r[x].c] = goClose[a.r[x].c] + 1
                    /\ orphans' = orphans
                            + Cardinality({x \in Fams \ {f} : a.r[x].st = "dial"})
            ELSE /\ pc'[g] = "dialRegion"
                 /\ att'[g].i = a.i + 1
                 /\ att'[g].tcpConn = 0
                 /\ IF a.dnDone
                    THEN a.firstErr = NoErr => att'[g].firstErr = Err("ctx", a.i, "")
                    ELSE /\ a.nwait = 1
                         /\ \E f \in Fams :
                             /\ a.r[f] = Racer("res", 0)
                             /\ a.firstErr = NoErr =>
                                 att'[g].firstErr =
                                    IF a.dnErr # NoErr THEN a.dnErr ELSE Err("dial", a.i, f)]_vars
    /\ [][\A g \in Procs : (pc[g] = "dialNode" /\ pc'[g] = "dialNode") =>
            /\ att'[g].dnErr # att[g].dnErr =>
                /\ att[g].dnErr = NoErr /\ ~att[g].dnDone
                /\ \E f \in Fams : /\ att[g].r[f] = Racer("res", 0)
                                   /\ att'[g].dnErr = Err("dial", att[g].i, f)
                                   /\ att'[g].r[f] = RacerOff
            /\ att[g].dnDone => att'[g].nwait = att[g].nwait]_vars
    /\ []<>RacersSettled

\* Both racers of a node have dialed a connection: dialNode has returned one,
\* open and unscheduled for closing, and the other has been closed.
C14_Witness ==
    \E g \in Procs, t \in Conns, u \in Conns :
        /\ pc[g] = "upgrade" /\ att[g].tcpConn = t /\ t # u
        /\ Open(t) /\ goClose[t] = 0
        /\ dialed = 2 /\ closes[u] = 1 /\ goClose[u] = 0
        /\ orphans = 0

\* C15: connect takes the fast-start branch exactly when TLS is used, the
\* negotiated version is at least 1.3 and some peer certificate has a common
\* name that starts with "derpkey", a remainder that parses as a hex public key
\* and a serial number in [0, 255]; otherwise it takes slow start.
C15_FastStartExactly ==
    \A g \in Procs :
        LET a == att[g] IN
        a.start # "" =>
            (a.start = "fast" <=>
                /\ UseHTTPS
                /\ a.version >= VersionTLS13
                /\ \E k \in 1..Len(a.certs) :
                    /\ a.certs[k].derpkey
                    /\ a.certs[k].key # "bad"
                    /\ a.certs[k].serial \in 0..255)

\* C15, amended: connect takes the fast-start branch exactly when TLS is used,
\* the negotiated version is at least 1.3, and the first peer certificate whose
\* common name starts with "derpkey", whose remainder parses as a hex public key
\* and whose serial number is at most 255 in absolute value carries a key that
\* is not the zero key and a serial number that is not 0.
C15_FastStartFirstMetaCert ==
    \A g \in Procs :
        LET a == att[g]
            meta == {k \in 1..Len(a.certs) :
                        /\ a.certs[k].derpkey
                        /\ a.certs[k].key # "bad"
                        /\ a.certs[k].serial \in -255..255}
        IN a.start # "" =>
            (a.start = "fast" <=>
                /\ UseHTTPS
                /\ a.version >= VersionTLS13
                /\ \E k \in meta :
                    /\ \A j \in meta : k <= j
                    /\ a.certs[k].key # "zero"
                    /\ a.certs[k].serial # 0)

\* After a TLS 1.3 handshake whose chain holds a "derpkey" certificate with
\* serial 256, passed over, and then one with a key and serial 255, connect has
\* chosen fast start.
C15_Witness ==
    \E g \in Procs :
        /\ pc[g] = "upgrade" /\ att[g].start = "fast"
        /\ att[g].version = VersionTLS13
        /\ att[g].certs = <<Cert(TRUE, "key", 256), Cert(TRUE, "key", 255)>>

\* C16: RecvDetail after a failed client.Recv().  It calls closeForReconnect
\* with the client it used, after which the slot does not hold that client, and
\* only then reads c.closed: it returns ErrClientClosed if the handle is Closed
\* at that moment and the RELAY error otherwise, with the generation connect
\* gave it.  It returns a RELAY error in no other way.
C16_RecvDetailError ==
    [][\A g \in Procs : (op[g] = "Recv" /\ Steps(g)) =>
        /\ pc[g] = "io" =>
            \/ pc'[g] = "done" /\ ret'[g] = "nil"
            \/ pc'[g] = "closeForReconnect" /\ cl'[g] = cl[g]
        /\ pc[g] = "closeForReconnect" =>
            /\ pc'[g] = "isClosed" /\ cl'[g] = cl[g] /\ gen'[g] = gen[g]
            /\ client' # cl[g]
            /\ client = cl[g] =>
                /\ client' = 0 /\ netConn' = 0
                /\ closes'[cl[g]] = closes[cl[g]] + 1
        /\ pc[g] = "isClosed" =>
            /\ pc'[g] = "done" /\ gen'[g] = gen[g]
            /\ ret'[g] = IF closed THEN "ErrClientClosed" ELSE "relayerr"
        /\ (pc'[g] = "done" /\ ret'[g] = "relayerr") => pc[g] = "isClosed"]_vars

\* A Recv has failed, closeForReconnect has torn its client down, the handle has
\* been closed in the meantime and RecvDetail is about to read c.closed.
C16_Witness ==
    \E g \in Procs :
        /\ pc[g] = "isClosed" /\ op[g] = "Recv"
        /\ closed /\ client = 0
        /\ teardowns[cl[g]] = 1 /\ closes[cl[g]] >= 1

\* C17: connect on a handle that is Live and not Closed returns the stored client
\* and the current generation and changes no field of the handle: it begins no
\* attempt (no region lookup, no DNS lookup, no dial), it keeps the mutex for
\* no longer than the check, and the generation is not incremented.
C17_LiveConnectIsNoOp ==
    [][\A g \in Procs : (pc[g] = "connect" /\ Steps(g) /\ ~closed /\ client # 0) =>
        /\ UNCHANGED <<clientVars, netVars, att, histVars>>
        /\ pc'[g] \notin AttemptPcs
        /\ gen'[g] = connGen
        /\ IF op[g] = "Connect"
           THEN pc'[g] = "done" /\ ret'[g] = "nil"
           ELSE pc'[g] = "io" /\ cl'[g] = client /\ op'[g] = op[g]]_vars

\* Two operations have been started and one connection was installed: one
\* caller has returned nil with generation 1 and the other holds the stored
\* client with generation 1, so one of the two went through connect on the Live
\* handle.
C17_Witness ==
    /\ nops = 2 /\ dialed = 1 /\ connGen = 1 /\ ~closed
    /\ \E g \in Procs, h \in Procs :
        /\ g # h
        /\ pc[g] = "done" /\ ret[g] = "nil" /\ gen[g] = 1
        /\ pc[h] = "io" /\ gen[h] = 1 /\ cl[h] = client

\* C18: a connect attempt that fails, at whatever stage, returns a non-nil
\* error, leaves the slot Empty and the generation and the cached server key as
\* they were, and has spawned the closing of the transport it dialed, if it
\* dialed one; a spawned closing ends only by closing its transport, and again
\* and again for ever every transport with a closing pending is closed.
C18_FailedAttempt ==
    /\ [][\A g \in Procs :
            (pc[g] \in AttemptPcs /\ op[g] = "Connect" /\ pc'[g] \notin AttemptPcs) =>
                /\ pc'[g] = "done"
                /\ ret'[g] \in {"nil", "connecterr"}
                /\ ret'[g] = "connecterr" =>
                    /\ client = 0 /\ netConn = 0
                    /\ client' = 0 /\ netConn' = 0
                    /\ connGen' = connGen
                    /\ serverPubKey' = serverPubKey
                    /\ genOf' = genOf
                    /\ mu' = Free
                    /\ att[g].tcpConn # 0 =>
                        goClose'[att[g].tcpConn] > goClose[att[g].tcpConn]]_vars
    /\ [][\A t \in Conns : goClose'[t] < goClose[t] => closes'[t] > closes[t]]_vars
    /\ []<>(\A t \in Conns : goClose[t] > 0 => ~Open(t))

\* On a handle marked preferred, connect has failed when it told the new RELAY
\* client so: it has returned its error, the slot is Empty, and two closing
\* goroutines are pending on the transport it dialed.
C18_Witness ==
    \E g \in Procs, t \in Conns :
        /\ pc[g] = "done" /\ ret[g] = "connecterr"
        /\ preferred /\ client = 0 /\ connGen = 0 /\ mu = Free
        /\ goClose[t] = 2 /\ Open(t)

\* How many times Close has been invoked on transport t, the invocations already
\* decided on (a spawned "go x.Close()", a watcher past its select) included.
CloseCalls(t) == closes[t] + goClose[t] + (IF t \in wClose THEN 1 ELSE 0)

\* No transport is left open without an owner: an open transport is referred to
\* by the slot or by a running attempt, or a Close of it is on its way.
Owned == \A t \in 1..dialed : Open(t) => t \in Held \/ CloseCalls(t) > 0

C20_ClientWithItsTransport ==
    /\ [](mu = Free /\ client # 0 =>
            /\ netConn = client
            /\ genOf[client] = connGen)
    /\ [][(client' # client \/ netConn' # netConn) =>
            /\ netConn' = client'
            /\ \/ client = 0 /\ netConn = 0 /\ client' # 0
               \/ client # 0 /\ client' = 0]_vars

\* A second connection has been installed after the first was torn down: the
\* slot holds the second client and the second transport.
C20_Witness ==
    /\ mu = Free /\ client = 2 /\ netConn = 2 /\ connGen = 2
    /\ teardowns[1] = 1 /\ genOf[1] = 1

\* C21: dialURL with a DNS cache.  When the lookup succeeds it dials the
\* resolved IP; when the lookup fails it goes on to dial the raw host name if
\* the dialer is a SOCKS dialer, and returns the DNS error without dialing if
\* it is not.
C21_DialURLPlan ==
    \A g \in Procs :
        LET a == att[g] IN
        (a.plan # "" /\ a.hasCache) =>
            a.plan = IF ~a.lookupErr THEN "ip"
                     ELSE IF a.isSOCKS THEN "host"
                     ELSE "dnserr"

\* C22: dialRegion walks the node list in order, one node at a time; it calls
\* dialNode on nodes that are not STUN-only and on no other; when a dialNode
\* succeeds it returns that node and its connection and goes to no later node;
\* with an empty list it returns an error and nothing is dialed.
C22_DialRegionOrder ==
    /\ [](\A g \in Procs : pc[g] = "dialNode" =>
            /\ att[g].i \in 1..Len(att[g].nodes)
            /\ ~att[g].nodes[att[g].i].STUNOnly)
    /\ [](\A g \in Procs : \A f \in Fams :
            att[g].r[f].st # "off" => pc[g] = "dialNode")
    /\ [][\A g \in Procs : (/\ pc[g] \in {"dialRegion", "dialNode"}
                             /\ (Steps(g) \/ att'[g].i # att[g].i)) =>
            LET a == att[g] IN
            /\ pc[g] = "dialRegion" =>
                IF a.i > Len(a.nodes)
                THEN pc'[g] = "done" /\ ret'[g] = "connecterr" /\ dialed' = dialed
                ELSE /\ att'[g].nodes = a.nodes
                     /\ dialed' = dialed
                     /\ \/ pc'[g] = "dialNode" /\ att'[g].i = a.i
                        \/ pc'[g] = "dialRegion" /\ att'[g].i = a.i + 1
            /\ pc[g] = "dialNode" =>
                /\ att'[g].nodes = a.nodes
                /\ \/ pc'[g] = "dialRegion" /\ att'[g].i = a.i + 1 /\ att'[g].tcpConn = 0
                   \/ /\ pc'[g] = "upgrade" /\ att'[g].i = a.i
                      /\ att'[g].tcpConn \in 1..dialed'
                      /\ closes'[att'[g].tcpConn] = 0]_vars
    /\ [][\A g \in Procs : pc[g] = "getRegion" /\ pc'[g] = "dialRegion" =>
            att'[g].i = 1 /\ dialed' = dialed]_vars
    /\ [][\A g \in Procs : pc[g] = "upgrade" => pc'[g] \in {"upgrade", "done"}]_vars

\* In a region of two nodes the first has been dialed with success: dialRegion
\* has returned it with its connection and the second node was not tried.
C22_Witness ==
    \E g \in Procs :
        /\ pc[g] = "upgrade" /\ Len(att[g].nodes) = 2 /\ att[g].i = 1
        /\ att[g].tcpConn # 0 /\ Open(att[g].tcpConn)
        /\ ~att[g].nodes[2].STUNOnly

\* C23: a connect attempt that gets through the RELAY handshake with c.preferred
\* set tells the new client NotePreferred(true) in the step that makes the slot
\* Live, and with the flag clear it tells the client nothing; an attempt that
\* fails after its dial, at that call or before, leaves the slot Empty, tells
\* nobody anything and hands its transport to a Close (to two at that call,
\* which is possible only with the flag set).
C23_ConnectNotesPreferred ==
    /\ [][\A g \in Procs : pc[g] = "upgrade" /\ Steps(g) =>
            LET t == att[g].tcpConn IN
            IF client' # 0
            THEN /\ client = 0 /\ client' = t /\ netConn' = t
                 /\ noted[t] = "none"
                 /\ noted' = [noted EXCEPT ![t] = IF preferred THEN "true" ELSE "none"]
                 /\ goClose' = goClose
            ELSE /\ client = 0 /\ netConn' = 0
                 /\ ret'[g] = "connecterr"
                 /\ noted' = noted
                 /\ goClose'[t] - goClose[t] \in (IF preferred THEN {1, 2} ELSE {1})]_vars
    /\ [](\A t \in Conns : noted[t] # "none" => genOf[t] > 0)

\* One caller has set the flag on the Empty handle and has then connected: the
\* client was told of the flag by connect, nobody else having run.
C23_Witness ==
    /\ nops = 2 /\ preferred
    /\ pc[Caller1] = "done" /\ ret[Caller1] = "nil"
    /\ \A g \in Procs \ {Caller1} : pc[g] = "done" /\ ret[g] = "none"
    /\ client # 0 /\ noted[client] = "true" /\ teardowns[client] = 0

\* C24: the lifecycle token c.ctx is cancelled at most once, and only by the
\* step in which a caller enters Close: it never goes back, no other step
\* touches it (connect attempts, their failures and timeouts, closeForReconnect
\* included), it is done from the first Close call on, and a later Close call
\* finds it done and leaves it so.
C24_CancelledOnlyByClose ==
    /\ [][cancelled' # cancelled =>
            /\ ~cancelled /\ cancelled'
            /\ \E g \in Procs : pc[g] = "done" /\ pc'[g] = "Close" /\ op'[g] = "Close"]_vars
    /\ [][\A g \in Procs : pc[g] = "done" /\ pc'[g] = "Close" => cancelled']_vars
    /\ [](\A g \in Procs : op[g] = "Close" => cancelled)
    /\ [](closed => cancelled)

\* A second Close call has been entered on a handle that an earlier Close has
\* closed, after a connect attempt that failed.
C24_Witness ==
    \E g \in Procs :
        /\ pc[g] = "Close" /\ closed /\ cancelled
        /\ nops = 3 /\ dialed = 1 /\ client = 0 /\ connGen = 0

\* C25, as stated: the watcher of dialNodeUsingProxy never closes a transport
\* that the call has returned with success (one that connect holds as tcpConn,
\* or has stored in the slot).
C25_ReturnedNeverClosedByWatcher ==
    \A t \in Conns :
        pw[t] = "closing" => t # netConn /\ \A g \in Procs : att[g].tcpConn # t

\* C26, as stated: once every NotePreferred call has returned, the last value
\* the Live RELAY client was told is the stored preferred flag, the connection
\* not having failed.
C26_NotedIsPreferred ==
    ( /\ \A g \in Procs : pc[g] = "done"
      /\ client # 0 /\ Open(client) /\ teardowns[client] = 0
      /\ noted[client] # "none" )
    => noted[client] = Told(preferred)

\* C27, as stated: the transport connect has stored in the slot is not one its
\* watcher has closed or has decided to close.
C27_NeverInstallsDoomed ==
    \A t \in Conns : genOf[t] > 0 => t \notin wClose

\* C28, as stated: no transport is left open without an owner.  A transport
\* that DialRegionTLS dialed and did not hand to its caller is closed in the
\* end: time and again every open transport is one a running call holds or one
\* a caller was handed.
C28_ErrorReturnCloses ==
    []<>(\A t \in 1..dialed : Open(t) => t \in Held \cup handed)

====
